---- MODULE Spec2Model ----
(***************************************************************************)
(* A model of the ISS tracker service (src/iss_tracker.py): the Redis      *)
(* cache entry "iss_state_vector_data", the callers of                     *)
(* fetch_and_store_iss_data that fill it from the upstream feed, and the   *)
(* Flask route handlers that answer queries from it.                       *)
(*                                                                         *)
(* Python values are modelled as follows.                                  *)
(*   None / a value v      the sequences << >> and << v >>                  *)
(*   a JSON string         [json |-> d] for the dict d it encodes          *)
(*   an EPOCH string       [year, doy, sod, frac, wf]: the text            *)
(*                         YYYY-DDDTHH:MM:SS.fffZ with sod the second of   *)
(*                         the day and frac the three digits fff; wf=FALSE *)
(*                         is a text that is not of that shape at all      *)
(*   time.mktime           seconds since 2025-001T00:00:00 (TZ = UTC); the *)
(*                         origin cancels in now - epoch_time              *)
(***************************************************************************)
EXTENDS Integers, Sequences, FiniteSets, TLC

VARIABLES
    cache,       \* value of rd.get(ISS_data): None or <<the JSON string>>
    fetchedAt,   \* history: clock value of the last rd.set, None before it
    clock,       \* wall clock, seconds
    pc,          \* per caller of fetch_and_store_iss_data: its position
    fetchCount,  \* history: number of requests.get(ISS_XML_URL) issued
    out          \* the last value returned by an operation, with its inputs

vars == <<cache, fetchedAt, clock, pc, fetchCount, out>>

(* ------------------------------- bounds ------------------------------- *)

NCallers == 2
MaxLen == 2
MaxClock == 3
MaxFetches == 3
TTL == 1

Callers == 1 .. NCallers

(* ----------------------------- Python values --------------------------- *)

None == << >>

Some(v) == << v >>

Min(a, b) == IF a <= b THEN a ELSE b

Max(a, b) == IF a >= b THEN a ELSE b

Abs(a) == IF a < 0 THEN 0 - a ELSE a

(* ------------------------------ the data ------------------------------ *)

Epoch(d, s, f) == [year |-> 2025, doy |-> d, sod |-> s, frac |-> f, wf |-> TRUE]

Garbage == [year |-> 0, doy |-> 0, sod |-> 0, frac |-> 0, wf |-> FALSE]

Epochs == {Epoch(1, 0, 0), Epoch(1, 2, 0), Epoch(1, 1, 500), Garbage}

\* x stands for float(sv['X']['#text']); the velocity components likewise.
SV(e, x) == [EPOCH |-> e, X |-> x, X_DOT |-> x, Y_DOT |-> 2, Z_DOT |-> 2]

StateVectors ==
    {SV(Epoch(1, 0, 0), 1), SV(Epoch(1, 0, 0), 2), SV(Epoch(1, 2, 0), 1),
     SV(Epoch(1, 1, 500), 1), SV(Garbage, 1)}

RECURSIVE SeqsUpTo(_, _)
SeqsUpTo(S, n) ==
    IF n = 0 THEN {<< >>}
    ELSE LET shorter == SeqsUpTo(S, n - 1)
         IN  shorter \cup {Append(s, x) : s \in {t \in shorter : Len(t) = n - 1}, x \in S}

AllSeries == SeqsUpTo(StateVectors, MaxLen)

Document(series) ==
    [ndm |-> [oem |-> [body |-> [segment |-> [data |-> [stateVector |-> series]]]]]]

StateVectorPath == <<"ndm", "oem", "body", "segment", "data", "stateVector">>

FeedOld == <<SV(Epoch(1, 0, 0), 1), SV(Epoch(1, 2, 0), 1)>>

FeedNew == <<SV(Epoch(1, 0, 0), 2), SV(Epoch(1, 1, 500), 1), SV(Epoch(1, 2, 0), 1)>>

Feeds == {FeedOld, FeedNew}

json_dumps(d) == [json |-> d]

json_loads(s) == s.json

RECURSIVE find_data_point(_, _)
find_data_point(data, keys) ==
    IF keys = << >> THEN Some(data)
    ELSE IF Head(keys) \in DOMAIN data
         THEN find_data_point(data[Head(keys)], Tail(keys))
         ELSE None

(* ------------------------- epoch parsing, time ------------------------ *)

StructTime(e) == [year |-> e.year, yday |-> e.doy, sod |-> e.sod]

\* time.strptime(sv["EPOCH"], "%Y-%jT%H:%M:%S.000Z"): the text must end in
\* the literal ".000Z"; None stands for the ValueError it raises otherwise.
strptime_scan(e) ==
    IF e.wf /\ e.frac = 0 THEN Some(StructTime(e)) ELSE None

\* The slice [:-1], which drops the "Z" alone: ".fff" is left over and
\* strptime raises ValueError for unconverted data.
strptime_location_keeps_fraction(e) == None

\* time.strptime(sv['EPOCH'][:-5], '%Y-%jT%H:%M:%S'): the slice drops the
\* last five characters, ".fffZ", whatever the digits fff are.
strptime_location(e) ==
    IF e.wf THEN Some(StructTime(e)) ELSE None

IsLeap(year) == (year % 4 = 0 /\ year % 100 # 0) \/ year % 400 = 0

DaysInMonth(year) ==
    <<31, IF IsLeap(year) THEN 29 ELSE 28, 31, 30, 31, 30, 31, 31, 30, 31, 30, 31>>

RECURSIVE MonthAndDay(_, _, _)
MonthAndDay(year, month, day) ==
    IF month < 12 /\ day > DaysInMonth(year)[month]
    THEN MonthAndDay(year, month + 1, day - DaysInMonth(year)[month])
    ELSE [month |-> month, day |-> day]

\* time.strftime('%Y-%m-%d %H:%M:%S', st): the text "YYYY-MM-DD HH:MM:SS",
\* month and day being those of day st.yday of the year; it has no digits
\* for a fraction of a second.
strftime_location(st) ==
    LET md == MonthAndDay(st.year, 1, st.yday)
    IN  [year |-> st.year, month |-> md.month, day |-> md.day, sod |-> st.sod]

mktime(st) == ((st.year - 2025) * 365 + st.yday - 1) * 86400 + st.sod

(* --------------------------- query arguments -------------------------- *)

Absent == [given |-> FALSE, int |-> FALSE, val |-> 0]

Bad == [given |-> TRUE, int |-> FALSE, val |-> 0]

Num(v) == [given |-> TRUE, int |-> TRUE, val |-> v]

QArgs == {Absent, Bad} \cup {Num(v) : v \in -1 .. MaxLen + 1}

\* The arguments the requests of Spec carry; SpecQuery runs over all of QArgs.
FewQArgs == {Absent, Num(1)}

\* int(request.args.get(name, default)): None stands for the ValueError.
int_arg(arg, default) ==
    IF ~arg.given THEN Some(default)
    ELSE IF arg.int THEN Some(arg.val) ELSE None

\* list[a:b] of Python: negative indices count from the end, both ends clamp.
PySlice(list, a, b) ==
    LET n == Len(list)
        norm(i) == IF i < 0 THEN Max(i + n, 0) ELSE Min(i, n)
    IN  IF norm(a) >= norm(b) THEN << >> ELSE SubSeq(list, norm(a) + 1, norm(b))

Truthy(cached_data) == cached_data # None

StateVectorList(cached_data) ==
    find_data_point(json_loads(cached_data[1]), StateVectorPath)[1]

Response(status, body, loc) == [status |-> status, body |-> body, loc |-> loc]

(* ------------------------------ /epochs ------------------------------- *)

\* The slice taken as list[offset:limit], limit read as an end index.
entire_data_end_index(cached_data, limit_arg, offset_arg) ==
    IF ~Truthy(cached_data) THEN Response(404, << >>, None)
    ELSE LET list_of_data == StateVectorList(cached_data)
             limit == int_arg(limit_arg, Len(list_of_data))
             offset == int_arg(offset_arg, 0)
         IN  IF limit = None \/ offset = None THEN Response(400, << >>, None)
             ELSE Response(200,
                           PySlice(list_of_data, offset[1],
                                   Min(limit[1], Len(list_of_data))),
                           None)

entire_data_response(cached_data, limit_arg, offset_arg) ==
    IF ~Truthy(cached_data) THEN Response(404, << >>, None)
    ELSE LET list_of_data == StateVectorList(cached_data)
             limit == int_arg(limit_arg, Len(list_of_data))
             offset == int_arg(offset_arg, 0)
         IN  IF limit = None \/ offset = None THEN Response(400, << >>, None)
             ELSE IF offset[1] >= Len(list_of_data) THEN Response(200, << >>, None)
             ELSE Response(200,
                           PySlice(list_of_data, offset[1],
                                   offset[1] + Min(limit[1], Len(list_of_data))),
                           None)

(* --------------------------- /epochs/<epoch> -------------------------- *)

\* The loop without its return: the last matching record wins.
RECURSIVE last_match(_, _, _)
last_match(list_of_data, i, epoch) ==
    IF i > Len(list_of_data) THEN None
    ELSE LET rest == last_match(list_of_data, i + 1, epoch)
         IN  IF rest # None THEN rest
             ELSE IF list_of_data[i].EPOCH = epoch THEN Some(list_of_data[i])
             ELSE None

RECURSIVE first_match(_, _, _)
first_match(list_of_data, i, epoch) ==
    IF i > Len(list_of_data) THEN None
    ELSE IF list_of_data[i].EPOCH = epoch THEN Some(list_of_data[i])
    ELSE first_match(list_of_data, i + 1, epoch)

state_vector_response(cached_data, epoch) ==
    LET found == IF Truthy(cached_data)
                 THEN first_match(StateVectorList(cached_data), 1, epoch)
                 ELSE None
    IN  IF found # None THEN Response(200, found, None)
        ELSE Response(404, << >>, None)

(* -------------------------------- /now -------------------------------- *)

\* The comparison turned round: nothing is greater than float("inf").
closer_reversed(time_diff, closest_time_diff) ==
    closest_time_diff # None /\ time_diff > closest_time_diff[1]

\* time_diff < closest_time_diff, with None the initial float("inf")
closer(time_diff, closest_time_diff) ==
    closest_time_diff = None \/ time_diff < closest_time_diff[1]

\* The try around the whole loop: the first ValueError ends the scan.
RECURSIVE scan_until_error(_, _, _, _, _)
scan_until_error(list_of_data, i, now, closest_epoch, closest_time_diff) ==
    IF i > Len(list_of_data) THEN closest_epoch
    ELSE LET sv == list_of_data[i]
             parsed == strptime_scan(sv.EPOCH)
         IN  IF parsed = None THEN None
             ELSE LET time_diff == Abs(now - mktime(parsed[1]))
                  IN  IF closer(time_diff, closest_time_diff)
                      THEN scan_until_error(list_of_data, i + 1, now, Some(sv),
                                            Some(time_diff))
                      ELSE scan_until_error(list_of_data, i + 1, now, closest_epoch,
                                            closest_time_diff)

RECURSIVE scan(_, _, _, _, _)
scan(list_of_data, i, now, closest_epoch, closest_time_diff) ==
    IF i > Len(list_of_data) THEN closest_epoch
    ELSE LET sv == list_of_data[i]
             parsed == strptime_scan(sv.EPOCH)
         IN  IF parsed = None
             THEN scan(list_of_data, i + 1, now, closest_epoch, closest_time_diff)
             ELSE LET time_diff == Abs(now - mktime(parsed[1]))
                  IN  IF closer(time_diff, closest_time_diff)
                      THEN scan(list_of_data, i + 1, now, Some(sv), Some(time_diff))
                      ELSE scan(list_of_data, i + 1, now, closest_epoch,
                                closest_time_diff)

\* The frame transform and the geocoder are library calls; what the model
\* keeps of them is the observation time they are given and the position.
compute_location_astropy(sv) ==
    LET parsed == strptime_location(sv.EPOCH)
    IN  IF parsed = None THEN None
        ELSE Some([obstime |-> strftime_location(parsed[1]), x |-> sv.X])

\* The empty cache answered like a missing series, with 404.
get_now_data_no_cache_404(cached_data, now) ==
    IF ~Truthy(cached_data) THEN Response(404, << >>, None)
    ELSE LET closest_epoch == scan(StateVectorList(cached_data), 1, now, None, None)
         IN  IF closest_epoch = None THEN Response(500, << >>, None)
             ELSE Response(200, closest_epoch,
                           compute_location_astropy(closest_epoch[1]))

get_now_data_response(cached_data, now) ==
    IF ~Truthy(cached_data) THEN Response(500, << >>, None)
    ELSE LET list_of_data == StateVectorList(cached_data)
         IN  IF list_of_data = << >> THEN Response(404, << >>, None)
             ELSE LET closest_epoch == scan(list_of_data, 1, now, None, None)
                  IN  IF closest_epoch = None THEN Response(500, << >>, None)
                      ELSE LET loc == compute_location_astropy(closest_epoch[1])
                           IN  IF loc = None THEN Response(500, closest_epoch, None)
                               ELSE Response(200, closest_epoch, loc)

(* ----------------------- /epochs/<epoch>/speed ------------------------ *)

\* The answer Flask gives when an exception leaves the handler.
Unhandled == Response(500, << >>, None)

\* math.sqrt(x**2 + y**2 + z**2), kept as the number under the root.
instantaneous_speed(x, y, z) == [sqrt |-> x * x + y * y + z * z]

\* With an empty cache list_of_data is never assigned (lines 211-213 have
\* no else) and the loop at line 215 raises UnboundLocalError.
get_instantaneous_speed_response(cached_data, epoch) ==
    IF ~Truthy(cached_data) THEN Unhandled
    ELSE LET found == first_match(StateVectorList(cached_data), 1, epoch)
         IN  IF found = None THEN Response(404, << >>, None)
             ELSE Response(200,
                           <<[epoch |-> epoch,
                              speed |-> instantaneous_speed(found[1].X_DOT,
                                                            found[1].Y_DOT,
                                                            found[1].Z_DOT)]>>,
                           None)

(* ---------------------- /epochs/<epoch>/location ---------------------- *)

\* A ValueError of compute_location_astropy is not caught by the handler.
location_response(cached_data, epoch) ==
    IF ~Truthy(cached_data) THEN Response(500, << >>, None)
    ELSE LET found == first_match(StateVectorList(cached_data), 1, epoch)
         IN  IF found = None THEN Response(404, << >>, None)
             ELSE LET loc == compute_location_astropy(found[1])
                  IN  IF loc = None THEN Unhandled
                      ELSE Response(200, found, loc)

(* --------------------- fetch_and_store_iss_data ----------------------- *)

\* What requests.get(ISS_XML_URL) can deliver: a 200 response whose XML
\* holds one of the feeds, another status code, or a RequestException.
UpstreamResponses ==
    {[kind |-> "ok", series |-> s] : s \in Feeds}
        \cup {[kind |-> "status", series |-> << >>],
              [kind |-> "exception", series |-> << >>]}

xmltodict_parse(response) == Document(response.series)

\* A write that publishes the series record by record: after it the key
\* holds only the first record of the new series.
rd_set_incremental(json_data) ==
    LET series == find_data_point(json_loads(json_data), StateVectorPath)[1]
    IN  Some(json_dumps(Document(SubSeq(series, 1, 1))))

\* The new value of the key after rd.set(ISS_data, json_data).
rd_set(json_data) == Some(json_data)

\* A failed fetch that clears the entry: it stores an empty document.
fetch_result_clear_on_failure(response) ==
    IF response.kind = "ok"
    THEN LET data == xmltodict_parse(response)
         IN  [store |-> Some(json_dumps(data)), value |-> Some(data)]
    ELSE [store |-> Some(json_dumps(Document(<< >>))), value |-> None]

\* Lines 44-57: what the call stores (None: no rd.set) and what it returns.
fetch_result(response) ==
    IF response.kind = "ok"
    THEN LET data == xmltodict_parse(response)
         IN  [store |-> Some(json_dumps(data)), value |-> Some(data)]
    ELSE [store |-> None, value |-> None]

\* The cached text returned as it is, without json.loads.
cache_hit_undecoded(cached_data) == Some(cached_data[1])

\* Line 42: the value a cache hit returns.
cache_hit(cached_data) == Some(json_loads(cached_data[1]))

NoArg == [limit |-> Absent, offset |-> Absent, epoch |-> Garbage, now |-> 0]

NoOut ==
    [op |-> "none", caller |-> 0, seen |-> None, args |-> NoArg, status |-> 0,
     body |-> << >>, loc |-> None, value |-> None, upstream |-> "none"]

Returned(p, seen, value, upstream) ==
    [NoOut EXCEPT !.op = "fetch_and_store_iss_data", !.caller = p, !.seen = seen,
                  !.value = value, !.upstream = upstream]

Responded(op, seen, args, r) ==
    [NoOut EXCEPT !.op = op, !.seen = seen, !.args = args, !.status = r.status,
                  !.body = r.body, !.loc = r.loc]

InFlight == {q \in Callers : pc[q] # "idle"}

\* Lines 39-42: read the key; return the decoded entry on a hit.
FS_Get(p) ==
    /\ pc[p] = "idle"
    /\ IF Truthy(cache)
       THEN /\ out' = Returned(p, cache, cache_hit(cache), "cache")
            /\ UNCHANGED pc
       ELSE /\ fetchCount + Cardinality(InFlight) < MaxFetches
            /\ pc' = [pc EXCEPT ![p] = "miss"]
            /\ UNCHANGED out
    /\ UNCHANGED <<cache, fetchedAt, clock, fetchCount>>

\* Line 45: the request leaves.
FS_Request(p) ==
    /\ pc[p] = "miss"
    /\ pc' = [pc EXCEPT ![p] = "waiting"]
    /\ fetchCount' = fetchCount + 1
    /\ UNCHANGED <<cache, fetchedAt, clock, out>>

\* Lines 45-57: the response arrives; on status 200 the entry is written.
FS_Response(p) ==
    /\ pc[p] = "waiting"
    /\ \E response \in UpstreamResponses :
          LET r == fetch_result(response)
          IN  /\ cache' = IF r.store # None THEN rd_set(r.store[1]) ELSE cache
              /\ fetchedAt' = IF r.store # None THEN Some(clock) ELSE fetchedAt
              /\ out' = Returned(p, None, r.value, response.kind)
    /\ pc' = [pc EXCEPT ![p] = "idle"]
    /\ UNCHANGED <<clock, fetchCount>>

Tick ==
    /\ clock < MaxClock
    /\ clock' = clock + 1
    /\ UNCHANGED <<cache, fetchedAt, pc, fetchCount, out>>

(* --------------------------- route handlers --------------------------- *)

\* args: the values the limit and offset query arguments are drawn from.
entire_data(args) ==
    /\ \E limit \in args, offset \in args :
          out' = Responded("entire_data", cache,
                           [NoArg EXCEPT !.limit = limit, !.offset = offset],
                           entire_data_response(cache, limit, offset))
    /\ UNCHANGED <<cache, fetchedAt, clock, pc, fetchCount>>

state_vector ==
    /\ \E epoch \in Epochs :
          out' = Responded("state_vector", cache, [NoArg EXCEPT !.epoch = epoch],
                           state_vector_response(cache, epoch))
    /\ UNCHANGED <<cache, fetchedAt, clock, pc, fetchCount>>

get_now_data ==
    /\ out' = Responded("get_now_data", cache, [NoArg EXCEPT !.now = clock],
                        get_now_data_response(cache, clock))
    /\ UNCHANGED <<cache, fetchedAt, clock, pc, fetchCount>>

get_instantaneous_speed ==
    /\ \E epoch \in Epochs :
          out' = Responded("get_instantaneous_speed", cache,
                           [NoArg EXCEPT !.epoch = epoch],
                           get_instantaneous_speed_response(cache, epoch))
    /\ UNCHANGED <<cache, fetchedAt, clock, pc, fetchCount>>

\* A handler that, finding the key empty, stores a feed it pulled itself.
location_storing ==
    /\ \E epoch \in Epochs :
          out' = Responded("location", cache, [NoArg EXCEPT !.epoch = epoch],
                           location_response(cache, epoch))
    /\ cache' = IF Truthy(cache) THEN cache
                ELSE rd_set(json_dumps(Document(FeedOld)))
    /\ UNCHANGED <<fetchedAt, clock, pc, fetchCount>>

location ==
    /\ \E epoch \in Epochs :
          out' = Responded("location", cache, [NoArg EXCEPT !.epoch = epoch],
                           location_response(cache, epoch))
    /\ UNCHANGED <<cache, fetchedAt, clock, pc, fetchCount>>

(* --------------------------- specifications --------------------------- *)

Init ==
    /\ cache = None
    /\ fetchedAt = None
    /\ clock = 0
    /\ pc = [p \in Callers |-> "idle"]
    /\ fetchCount = 0
    /\ out = NoOut

Next ==
    \/ \E p \in Callers : FS_Get(p)
    \/ \E p \in Callers : FS_Request(p)
    \/ \E p \in Callers : FS_Response(p)
    \/ Tick
    \/ entire_data(FewQArgs)
    \/ state_vector
    \/ get_instantaneous_speed
    \/ location
    \/ get_now_data

Spec == Init /\ [][Next]_vars

\* The queries alone, over every entry the key can hold.
AllCaches == {None} \cup {Some(json_dumps(Document(s))) : s \in AllSeries}

InitQuery ==
    /\ cache \in AllCaches
    /\ fetchedAt = IF cache = None THEN None ELSE Some(0)
    /\ clock = 0
    /\ pc = [p \in Callers |-> "idle"]
    /\ fetchCount = IF cache = None THEN 0 ELSE 1
    /\ out = NoOut

NextQuery ==
    \/ Tick
    \/ entire_data(QArgs)
    \/ state_vector
    \/ get_instantaneous_speed
    \/ location
    \/ get_now_data

SpecQuery == InitQuery /\ [][NextQuery]_vars

(* ------------------------- claims: vocabulary ------------------------- *)

\* The series a response was computed from (empty when the key was absent).
SeenSeries ==
    IF Truthy(out.seen) THEN StateVectorList(out.seen) ELSE << >>

Range(seq) == {seq[i] : i \in 1 .. Len(seq)}

\* The instant an epoch text denotes, in milliseconds, fraction included.
Instant(e) == (((e.year - 2025) * 365 + e.doy - 1) * 86400 + e.sod) * 1000 + e.frac

Distance(sv, now) == Abs(Instant(sv.EPOCH) - now * 1000)

SortedByEpoch(series) ==
    /\ \A i \in 1 .. Len(series) : series[i].EPOCH.wf
    /\ \A i, j \in 1 .. Len(series) :
          i < j => Instant(series[i].EPOCH) <= Instant(series[j].EPOCH)

\* The text has the form YYYY-DDDTHH:MM:SS.000Z.
ZeroMillisForm(e) == e.wf /\ e.frac = 0

NonNegative(arg) == ~arg.given \/ (arg.int /\ arg.val >= 0)

(* ------------------------------ C5 ------------------------------------ *)

\* C5: for every cached series S and every offset >= 0 and limit >= 0
\* (absent: offset 0, limit len(S)), /epochs answers 200 with the records
\* S[offset .. offset+k) in order, k = min(limit, len(S) - offset) when
\* offset < len(S) and k = 0 otherwise.
C5_RangeQuery ==
    (/\ out.op = "entire_data"
     /\ Truthy(out.seen)
     /\ NonNegative(out.args.limit)
     /\ NonNegative(out.args.offset))
    => LET S == SeenSeries
           offset == IF out.args.offset.given THEN out.args.offset.val ELSE 0
           limit == IF out.args.limit.given THEN out.args.limit.val ELSE Len(S)
           k == IF offset < Len(S) THEN Min(limit, Len(S) - offset) ELSE 0
       IN  /\ out.status = 200
           /\ Len(out.body) = k
           /\ \A i \in 1 .. k : out.body[i] = S[offset + i]

\* A slice that starts inside the series and stops before its end.
C5_Witness ==
    /\ out.op = "entire_data"
    /\ out.status = 200
    /\ out.args.offset = Num(1)
    /\ out.args.limit = Num(1)
    /\ Len(SeenSeries) = 2
    /\ out.body = <<SeenSeries[2]>>

(* ------------------------------ C6 ------------------------------------ *)

\* C6: for every non-empty series sorted ascending by epoch and every
\* instant now, /now selects a record r of the series such that no record
\* is strictly nearer to now than r, and among the records as near as r it
\* is one with the earliest epoch.
C6_Nearest ==
    (/\ out.op = "get_now_data"
     /\ SeenSeries # << >>
     /\ SortedByEpoch(SeenSeries))
    => /\ out.body # None
       /\ out.body[1] \in Range(SeenSeries)
       /\ \A sv \in Range(SeenSeries) :
             /\ Distance(sv, out.args.now) >= Distance(out.body[1], out.args.now)
             /\ Distance(sv, out.args.now) = Distance(out.body[1], out.args.now)
                   => Instant(out.body[1].EPOCH) <= Instant(sv.EPOCH)

(* ------------------------------ C7 ------------------------------------ *)

C8_ExactLookup ==
    (out.op = "state_vector")
    => LET e == out.args.epoch
           matches == {i \in 1 .. Len(SeenSeries) : SeenSeries[i].EPOCH = e}
       IN  IF matches = {}
           THEN out.status = 404 /\ out.body = None
           ELSE /\ out.status = 200
                /\ \E i \in matches :
                      /\ \A j \in matches : i <= j
                      /\ out.body = <<SeenSeries[i]>>
                /\ out.body[1].EPOCH = e

\* Two different records with the requested epoch: the first is returned.
C8_Witness ==
    /\ out.op = "state_vector"
    /\ out.status = 200
    /\ Len(SeenSeries) = 2
    /\ SeenSeries[1].EPOCH = out.args.epoch
    /\ SeenSeries[2].EPOCH = out.args.epoch
    /\ SeenSeries[1] # SeenSeries[2]
    /\ out.body = <<SeenSeries[1]>>

(* ------------------------------ C9 ------------------------------------ *)

\* A step in which /now delivers a response.
NowStep == out' # out /\ out'.op = "get_now_data"

\* C9: when the key holds no data, /now answers 500, selects no record and
\* computes no location, and the step issues no upstream request: no caller
\* moves, the request count and the cache are as before.
C9_NowWithoutData ==
    [][(NowStep /\ ~Truthy(cache))
          => (/\ out'.status = 500
              /\ out'.body = None
              /\ out'.loc = None
              /\ fetchCount' = fetchCount
              /\ pc' = pc
              /\ cache' = cache)]_vars

\* /now has answered 500 on an empty cache while a caller is about to fetch.
C9_Witness ==
    /\ out.op = "get_now_data"
    /\ out.seen = None
    /\ out.status = 500
    /\ \E p \in Callers : pc[p] = "miss"

(* ------------------------------ C1 ------------------------------------ *)

\* C1: single-flight: in every interleaving of the callers of
\* fetch_and_store_iss_data at most one upstream request is in flight; a
\* second caller that finds the cache empty waits instead of fetching.
C1_SingleFlight ==
    Cardinality({p \in Callers : pc[p] = "waiting"}) <= 1

(* ------------------------------ C2 ------------------------------------ *)

FetchFailures == {"status", "exception"}

\* C2: serve-stale: when an entry exists and a fetch fails (non-200 status
\* or request exception), the entry is left unchanged and the caller
\* receives the series of that entry, not None.
C2_ServeStale ==
    [][\A p \in Callers :
          (FS_Response(p) /\ Truthy(cache) /\ out'.upstream \in FetchFailures)
             => (cache' = cache /\ out'.value = Some(json_loads(cache[1])))]_vars

(* ------------------------------ C3 ------------------------------------ *)

\* C3: TTL freshness: a call of fetch_and_store_iss_data that finds an entry
\* older than the TTL (clock - fetchedAt > TTL) goes on to fetch upstream
\* instead of serving the entry.
C3_StaleEntryRefetched ==
    [][\A p \in Callers :
          (FS_Get(p) /\ Truthy(cache) /\ clock - fetchedAt[1] > TTL)
             => pc'[p] = "miss"]_vars

(* ------------------------------ C4 ------------------------------------ *)

\* C4: a failed upstream fetch (non-200 status or request exception)
\* returns None, which no successful call returns, and writes nothing: the
\* cache, empty or not, is as it was before.
C4_FailureSurfacedNothingWritten ==
    [][\A p \in Callers :
          (pc[p] = "waiting" /\ pc'[p] = "idle")
             => IF out'.upstream \in FetchFailures
                THEN out'.value = None /\ cache' = cache /\ fetchedAt' = fetchedAt
                ELSE out'.value # None /\ Truthy(cache')]_vars

\* A fetch has failed on an empty cache, which is still empty.
C4_Witness ==
    /\ out.op = "fetch_and_store_iss_data"
    /\ out.upstream \in FetchFailures
    /\ out.value = None
    /\ cache = None
    /\ fetchCount > 0

(* ------------------------------ C10 ----------------------------------- *)

ReaderOps ==
    {"entire_data", "state_vector", "get_instantaneous_speed", "location",
     "get_now_data"}

\* A step in which a route handler delivers a response.
Readers == out' # out /\ out'.op \in ReaderOps

WholeEntries == {Some(json_dumps(xmltodict_parse(r))) : r \in {u \in UpstreamResponses : u.kind = "ok"}}

\* C10, as stated: a reader that runs while a refresh is in progress
\* observes a complete series, never an absent one.
C10_ReaderNeverSeesAbsent ==
    [][(Readers /\ InFlight # {})
          => (out'.seen # None /\ out'.seen \in WholeEntries)]_vars

\* C10, amended: a reader observes the entry as it was before the refresh,
\* which is absent only while nothing has been written yet, or a complete
\* series the upstream delivered; the key always holds nothing or one
\* complete delivered series, is replaced in one step, and once written is
\* never absent again.
C10_AtomicPublish ==
    [][/\ cache' \in {None} \cup WholeEntries
       /\ Truthy(cache) => Truthy(cache')
       /\ Readers => (/\ out'.seen = cache
                      /\ cache' = cache
                      /\ out'.seen \in {None} \cup WholeEntries
                      /\ (out'.seen = None => fetchedAt = None))]_vars

\* A reader has observed the complete new series while another caller's
\* refresh is still in flight.
C10_Witness ==
    /\ out.op \in ReaderOps
    /\ out.seen = Some(json_dumps(Document(FeedNew)))
    /\ \E p \in Callers : pc[p] = "waiting"

(* ------------------------------ C11 ----------------------------------- *)

\* Whole seconds between the instant of a record the scan accepts and now.
SecondsFrom(sv, now) == Abs(now - Instant(sv.EPOCH) \div 1000)

RECURSIVE DayOfYear(_, _, _)
DayOfYear(year, month, day) ==
    IF month = 1 THEN day
    ELSE DaysInMonth(year)[month - 1] + DayOfYear(year, month - 1, day)

\* The canonical day-of-year text of the instant the code has parsed. The
\* parsed instant has whole seconds only, so its text has the fraction 000.
CanonicalText(t) ==
    [year |-> t.year, doy |-> DayOfYear(t.year, t.month, t.day), sod |-> t.sod,
     frac |-> 0, wf |-> TRUE]

\* C12: for every valid epoch text e of a cached record, the instant that
\* the location computation parses from e, written back in the canonical
\* form YYYY-DDDTHH:MM:SS.fffZ, is e again, fraction included.
C12_EpochRoundTrip ==
    (out.op = "location" /\ out.args.epoch.wf /\ out.body # None)
    => (out.loc # None /\ CanonicalText(out.loc[1].obstime) = out.args.epoch)

(* ------------------------------ C13 ----------------------------------- *)

\* C13: for every cache state, the empty cache included, /epochs/<e>/speed
\* answers 200 with the speed sqrt(vx^2 + vy^2 + vz^2) of the first record
\* whose EPOCH equals e, or 404 when there is none; no exception leaves it.
C13_SpeedLookupResponds ==
    (out.op = "get_instantaneous_speed")
    => LET e == out.args.epoch
           matches == {i \in 1 .. Len(SeenSeries) : SeenSeries[i].EPOCH = e}
       IN  IF matches = {}
           THEN out.status = 404
           ELSE /\ out.status = 200
                /\ \E i \in matches :
                      /\ \A j \in matches : i <= j
                      /\ out.body =
                            <<[epoch |-> e,
                               speed |-> [sqrt |-> SeenSeries[i].X_DOT * SeenSeries[i].X_DOT
                                                   + SeenSeries[i].Y_DOT * SeenSeries[i].Y_DOT
                                                   + SeenSeries[i].Z_DOT * SeenSeries[i].Z_DOT]]>>

(* ------------------------------ C14 ----------------------------------- *)

\* A step in which fetch_and_store_iss_data returns from the cache.
HitStep == out' # out /\ out'.op = "fetch_and_store_iss_data" /\ out'.upstream = "cache"

\* C14: a call of fetch_and_store_iss_data that finds an entry returns the
\* decoded entry, issues no upstream request and leaves the entry as it is;
\* a call goes on to fetch, and a request is issued, only after its read of
\* the key returned nothing.
C14_CacheHitShortCircuit ==
    [][/\ HitStep
          => (/\ Truthy(cache)
              /\ out'.value = Some(cache[1].json)
              /\ out'.seen = cache
              /\ fetchCount' = fetchCount
              /\ cache' = cache
              /\ pc' = pc)
       /\ \A p \in Callers :
             (pc[p] = "idle" /\ pc'[p] = "miss") => ~Truthy(cache)
       /\ fetchCount' # fetchCount
             => \E p \in Callers : pc[p] = "miss" /\ pc'[p] = "waiting"]_vars

\* A call has been served from the cache after the single fetch that filled it.
C14_Witness ==
    /\ out.op = "fetch_and_store_iss_data"
    /\ out.upstream = "cache"
    /\ out.value = Some(Document(FeedOld))
    /\ fetchCount = 1
    /\ clock > 0

(* ------------------------------ C15 ----------------------------------- *)

\* C15: no query (range, exact epoch, speed, location, nearest to now)
\* changes the cache entry; the entry changes only in the step in which a
\* call of fetch_and_store_iss_data receives a successful upstream response.
C15_QueriesReadOnly ==
    [][/\ Readers => (cache' = cache /\ fetchedAt' = fetchedAt)
       /\ cache' # cache
             => (/\ out'.op = "fetch_and_store_iss_data"
                 /\ out'.upstream = "ok"
                 /\ \E p \in Callers : pc[p] = "waiting" /\ pc'[p] = "idle")]_vars

\* A speed query has been answered from an entry that is still the entry.
C15_Witness ==
    /\ out.op = "get_instantaneous_speed"
    /\ out.status = 200
    /\ Truthy(cache)
    /\ out.seen = cache

(* ------------------------------ C16 ----------------------------------- *)

\* C16: every record that the scan of /now accepts and selects is also
\* accepted by the parsing inside the location computation, and both read
\* the same year, day of the year and time of day from its EPOCH text.
C16_ParserAgreement ==
    (out.op = "get_now_data" /\ out.body # None)
    => LET scanned == strptime_scan(out.body[1].EPOCH)
       IN  /\ scanned # None
           /\ out.loc # None
           /\ out.loc[1].obstime.year = scanned[1].year
           /\ DayOfYear(out.loc[1].obstime.year, out.loc[1].obstime.month,
                        out.loc[1].obstime.day) = scanned[1].yday
           /\ out.loc[1].obstime.sod = scanned[1].sod

\* The record at 00:00:02 has been selected and located.
C16_Witness ==
    /\ out.op = "get_now_data"
    /\ out.body # None
    /\ out.loc = Some([obstime |-> [year |-> 2025, month |-> 1, day |-> 1, sod |-> 2],
                       x |-> 1])

====
